---- MODULE Spec2Model ----
(***************************************************************************)
(* Model of pv::views::trace::TraceTreeItemOwner                           *)
(* (pv/views/trace/tracetreeitemowner.cpp): the child list of an owner,    *)
(* the flattening views, the vertical extents, the restacking pass and the *)
(* save / restore of the tree into a hierarchical key-value store.         *)
(***************************************************************************)
EXTENDS Integers, Sequences, FiniteSets, TLC

\* ------------------------------------------------------------------------
\* Objects.  Leaves are traces (a leaf's name is its identity), Groups are
\* TraceGroup objects (both an item and an owner), Root is the view, an
\* owner that is not an item.
Leaves == {"l1", "l2", "l3"}
Groups == {"g1", "g2"}
Root == "root"
Items == Leaves \cup Groups
Owners == {Root} \cup Groups
NULL == "null"

\* How many TraceGroup objects the caller makes (restore makes the others).
MaxCreated == 1

\* How often the model saves into the store, and how many calls change
\* the tree once the store holds a saved tree.
MaxSaves == 1
MaxEdits == 2

\* <limits.h>, the start values of the extents fold of v_extents.
INT_MAX == 2147483647
INT_MIN == -INT_MAX - 1

\* The intrinsic extents of each trace, as its own v_extents() reports them.
LeafExtents == [l \in Leaves |->
    CASE l = "l1" -> <<-1, 0>>
      [] l = "l2" -> <<0, 1>>
      [] OTHER -> <<-2, 2>>]

VARIABLES
    items_,            \* owner -> its child list (TraceTreeItemOwner::items_)
    owner_,            \* item -> the owner holding it, or NULL
    alive,             \* the TraceGroup objects that exist
    enabled_,          \* item -> enabled()
    dragging_,         \* item -> dragging()
    layout_v_offset_,  \* item -> layout_v_offset()
    extents_,          \* leaf -> its own v_extents()
    settings,          \* the QSettings store: a set of (group, key, value)
    saves,             \* how often the store was saved into
    edits,             \* calls that changed the tree since the first save
    call,              \* the most recent call and how it ended
    ret,               \* what the most recent query returned
    notified,          \* extents_changed(true, true) emitted by that call
    emitted            \* each of these emissions, and the tree it found

vars == <<items_, owner_, alive, enabled_, dragging_, layout_v_offset_,
          extents_, settings, saves, edits, call, ret, notified, emitted>>

geometry == <<enabled_, dragging_, extents_>>

\* ------------------------------------------------------------------------
\* Small helpers.
Min(a, b) == IF a < b THEN a ELSE b
Max(a, b) == IF a > b THEN a ELSE b

\* C++ integer division by two: truncation towards zero.
CDiv2(s) == IF s >= 0 THEN s \div 2 ELSE -((-s) \div 2)

Range(seq) == {seq[i] : i \in 1..Len(seq)}

Count(x, seq) == Cardinality({i \in 1..Len(seq) : seq[i] = x})

\* The sequence without its first occurrence of x: find + erase.
RECURSIVE EraseFirst(_, _)
EraseFirst(seq, x) ==
    IF seq = <<>> THEN <<>>
    ELSE IF Head(seq) = x THEN Tail(seq)
    ELSE <<Head(seq)>> \o EraseFirst(Tail(seq), x)

\* The owners a recursion visits that starts at the owners in S and enters
\* the child groups that are in E.
RECURSIVE Visited(_, _, _, _)
Visited(S, its, E, n) ==
    IF n = 0 THEN S
    ELSE Visited(S \cup {g \in E : \E o \in S : g \in Range(its[o])},
                 its, E, n - 1)

Below(o, its, E) == Visited({o}, its, E, Cardinality(Groups) + 1)

\* A recursion from o that enters the child groups in E comes back to a
\* group it is already in: it does not return.
Diverges(o, its, E) ==
    \E g \in Below(o, its, E) :
        \E c \in Range(its[g]) \cap E : g \in Below(c, its, E)

\* ------------------------------------------------------------------------
\* trace_tree_child_items and trace_tree_leaf_items.
trace_tree_child_items(o, its) == its[o]

RECURSIVE trace_tree_leaf_items(_, _)
RECURSIVE leaf_items_loop(_, _)

\* The loop without the branch case: every child is pushed as it is.
leaf_items_loop_no_branch(seq, its) == seq

leaf_items_loop(seq, its) ==
    IF seq = <<>> THEN <<>>
    ELSE LET i == Head(seq)
         IN (IF i \in Groups
                THEN trace_tree_leaf_items(i, its)
                ELSE <<i>>) \o leaf_items_loop(Tail(seq), its)

trace_tree_leaf_items(o, its) ==
    leaf_items_loop(trace_tree_child_items(o, its), its)

\* ------------------------------------------------------------------------
\* v_extents.
RECURSIVE v_extents(_, _, _)
RECURSIVE v_extents_loop(_, _, _, _)

\* t->v_extents(): a trace reports its own extents, a group its owner part.
item_v_extents(t, its, off) ==
    IF t \in Groups THEN v_extents(t, its, off) ELSE extents_[t]

\* The loop without the enabled() test: disabled children count as well.
v_extents_loop_counts_disabled(seq, acc, its, off) ==
    IF seq = <<>> THEN acc
    ELSE LET t == Head(seq)
             child_offset == off[t]
             child_extents == item_v_extents(t, its, off)
         IN v_extents_loop(Tail(seq),
                [has_children |-> TRUE,
                 first |-> Min(child_extents[1] + child_offset, acc.first),
                 second |-> Max(child_extents[2] + child_offset, acc.second)],
                its, off)

v_extents_loop(seq, acc, its, off) ==
    IF seq = <<>> THEN acc
    ELSE LET t == Head(seq)
         IN IF ~enabled_[t]
               THEN v_extents_loop(Tail(seq), acc, its, off)
               ELSE LET child_offset == off[t]
                        child_extents == item_v_extents(t, its, off)
                    IN v_extents_loop(Tail(seq),
                         [has_children |-> TRUE,
                          first |-> Min(child_extents[1] + child_offset,
                                        acc.first),
                          second |-> Max(child_extents[2] + child_offset,
                                         acc.second)],
                         its, off)

v_extents(o, its, off) ==
    LET r == v_extents_loop(trace_tree_child_items(o, its),
                 [has_children |-> FALSE, first |-> INT_MAX,
                  second |-> INT_MIN], its, off)
    IN IF ~r.has_children THEN <<0, 0>> ELSE <<r.first, r.second>>

\* ------------------------------------------------------------------------
\* restack_items.
\* The sort key with the sign of the comparison turned round.
SortKey_descending(t, its, off) ==
    LET ext == item_v_extents(t, its, off)
    IN -(off[t] + CDiv2(ext[1] + ext[2]))

SortKey(t, its, off) ==
    LET ext == item_v_extents(t, its, off)
    IN off[t] + CDiv2(ext[1] + ext[2])

\* std::stable_sort with the comparator key(a) < key(b): an element goes
\* before the first one whose key is greater, so equal keys keep list order.
RECURSIVE InsertSorted(_, _, _, _)

\* The insertion that goes before the first key that is not less: equal
\* keys end up in the reverse of their list order.
InsertSorted_unstable(sorted, x, its, off) ==
    IF sorted = <<>> THEN <<x>>
    ELSE IF SortKey(x, its, off) <= SortKey(Head(sorted), its, off)
         THEN <<x>> \o sorted
         ELSE <<Head(sorted)>> \o InsertSorted(Tail(sorted), x, its, off)

InsertSorted(sorted, x, its, off) ==
    IF sorted = <<>> THEN <<x>>
    ELSE IF SortKey(x, its, off) < SortKey(Head(sorted), its, off)
         THEN <<x>> \o sorted
         ELSE <<Head(sorted)>> \o InsertSorted(Tail(sorted), x, its, off)

RECURSIVE stable_sort_from(_, _, _, _)
stable_sort_from(sorted, rest, its, off) ==
    IF rest = <<>> THEN sorted
    ELSE stable_sort_from(InsertSorted(sorted, Head(rest), its, off),
                          Tail(rest), its, off)

stable_sort(seq, its, off) == stable_sort_from(<<>>, seq, its, off)

\* The loop body without the test for (0, 0) extents.
restack_step_no_skip(r, total_offset, its, off) ==
    LET extents == item_v_extents(r, its, off)
        t1 == IF enabled_[r] THEN total_offset + (-extents[1])
                             ELSE total_offset
        off1 == IF ~dragging_[r] THEN [off EXCEPT ![r] = t1] ELSE off
        t2 == IF enabled_[r] THEN t1 + extents[2] ELSE t1
    IN [total |-> t2, off |-> off1]

\* The loop body that advances the total for disabled items as well.
restack_step_counts_disabled(r, total_offset, its, off) ==
    LET extents == item_v_extents(r, its, off)
    IN IF extents[1] = 0 /\ extents[2] = 0
          THEN [total |-> total_offset, off |-> off]
          ELSE LET t1 == total_offset + (-extents[1])
                   off1 == IF ~dragging_[r] THEN [off EXCEPT ![r] = t1]
                                            ELSE off
               IN [total |-> t1 + extents[2], off |-> off1]

\* The loop body that places the item before it makes room for its min.
restack_step_places_first(r, total_offset, its, off) ==
    LET extents == item_v_extents(r, its, off)
    IN IF extents[1] = 0 /\ extents[2] = 0
          THEN [total |-> total_offset, off |-> off]
          ELSE LET off1 == IF ~dragging_[r]
                              THEN [off EXCEPT ![r] = total_offset] ELSE off
                   t2 == IF enabled_[r]
                            THEN total_offset + (-extents[1]) + extents[2]
                            ELSE total_offset
               IN [total |-> t2, off |-> off1]

\* The loop body that passes over a dragged item altogether.
restack_step_skips_dragged(r, total_offset, its, off) ==
    LET extents == item_v_extents(r, its, off)
    IN IF (extents[1] = 0 /\ extents[2] = 0) \/ dragging_[r]
          THEN [total |-> total_offset, off |-> off]
          ELSE LET t1 == IF enabled_[r] THEN total_offset + (-extents[1])
                                        ELSE total_offset
                   t2 == IF enabled_[r] THEN t1 + extents[2] ELSE t1
               IN [total |-> t2, off |-> [off EXCEPT ![r] = t1]]

\* One pass of the loop body over r, from (total_offset, offsets).
restack_step(r, total_offset, its, off) ==
    LET extents == item_v_extents(r, its, off)
    IN IF extents[1] = 0 /\ extents[2] = 0
          THEN [total |-> total_offset, off |-> off]
          ELSE LET t1 == IF enabled_[r] THEN total_offset + (-extents[1])
                                        ELSE total_offset
                   off1 == IF ~dragging_[r] THEN [off EXCEPT ![r] = t1]
                                            ELSE off
                   t2 == IF enabled_[r] THEN t1 + extents[2] ELSE t1
               IN [total |-> t2, off |-> off1]

RECURSIVE restack_loop(_, _, _, _)
restack_loop(seq, total_offset, its, off) ==
    IF seq = <<>> THEN off
    ELSE LET s == restack_step(Head(seq), total_offset, its, off)
         IN restack_loop(Tail(seq), s.total, its, s.off)

\* The offsets restack_items leaves when run over the list seq.
restack_list(seq, its, off) ==
    restack_loop(stable_sort(seq, its, off), 0, its, off)

restack_items(o, its, off) ==
    restack_list(trace_tree_child_items(o, its), its, off)

\* ------------------------------------------------------------------------
\* The QSettings store.  A key lives in a group, the path of the section
\* indices opened by beginGroup.
contains(st, group, key) == \E e \in st : e.group = group /\ e.key = key

value(st, group, key) ==
    (CHOOSE e \in st : e.group = group /\ e.key = key).value

setValue(st, group, key, v) ==
    {e \in st : ~(e.group = group /\ e.key = key)}
        \cup {[group |-> group, key |-> key, value |-> v]}

\* save_trace_tree.
RECURSIVE save_trace_tree(_, _, _, _)
RECURSIVE save_loop(_, _, _, _, _)

\* child->save_trace_tree(settings): a group saves its owner part, a trace
\* records its name.
item_save_trace_tree(child, group, st, its) ==
    IF child \in Groups
       THEN save_trace_tree(child, group, st, its)
       ELSE setValue(st, group, "trace", child)

\* The loop with a section index that is never advanced.
save_loop_no_increment(seq, i, group, st, its) ==
    IF seq = <<>> THEN setValue(st, group, "items", i)
    ELSE save_loop(Tail(seq), i, group,
             item_save_trace_tree(Head(seq), Append(group, i), st, its), its)

save_loop(seq, i, group, st, its) ==
    IF seq = <<>> THEN setValue(st, group, "items", i)
    ELSE save_loop(Tail(seq), i + 1, group,
             item_save_trace_tree(Head(seq), Append(group, i), st, its), its)

\* save_trace_tree that writes nothing for an owner without children.
save_trace_tree_skips_empty(o, group, st, its) ==
    IF trace_tree_child_items(o, its) = <<>> THEN st
    ELSE save_loop(trace_tree_child_items(o, its), 0, group, st, its)

save_trace_tree(o, group, st, its) ==
    save_loop(trace_tree_child_items(o, its), 0, group, st, its)

\* ------------------------------------------------------------------------
\* The mutable part of the tree, as the calls below thread it:
\*   items, owner, off, alive, notified, emitted, and status / at, the way
\*   the call ended ("ok", a failed assert at a source line, or a recursion
\*   that does not return).
Tree == [items |-> items_, owner |-> owner_, off |-> layout_v_offset_,
         alive |-> alive, notified |-> 0, emitted |-> <<>>,
         status |-> "ok", at |-> 0]

Fail(s, line) == [s EXCEPT !.status = "assert", !.at = line]

\* extents_changed(horz, vert) called on owner o in tree s, from a call that
\* is about item: the arguments, and the back-reference of the item and its
\* place in o's list as a receiver finds them at that moment.
extents_changed(s, o, item, horz, vert) ==
    [s EXCEPT !.notified = @ + 1,
              !.emitted = Append(@, [on |-> o, item |-> item,
                                     horz |-> horz, vert |-> vert,
                                     owner |-> s.owner[item],
                                     listed |-> Count(item, s.items[o])])]

\* add_child_item that checks its precondition after it has attached the item.
add_child_item_asserts_late(s, o, item) ==
    LET s1 == [s EXCEPT !.owner[item] = o, !.items[o] = Append(@, item)]
    IN IF s.owner[item] # NULL THEN Fail(s1, 86)
       ELSE extents_changed(s1, o, item, TRUE, TRUE)

\* add_child_item that notifies first and attaches the item afterwards.
add_child_item_notifies_first(s, o, item) ==
    IF s.owner[item] # NULL THEN Fail(s, 86)
    ELSE LET s1 == extents_changed(s, o, item, TRUE, TRUE)
         IN [s1 EXCEPT !.owner[item] = o, !.items[o] = Append(@, item)]

\* add_child_item.
add_child_item(s, o, item) ==
    IF s.owner[item] # NULL THEN Fail(s, 86)
    ELSE LET s1 == [s EXCEPT !.owner[item] = o]
             s2 == [s1 EXCEPT !.items[o] = Append(@, item)]
         IN extents_changed(s2, o, item, TRUE, TRUE)

\* remove_child_item that erases the item and keeps its back-reference.
remove_child_item_keeps_owner(s, o, item) ==
    IF s.owner[item] # o THEN Fail(s, 95)
    ELSE IF item \notin Range(s.items[o]) THEN Fail(s, 98)
    ELSE extents_changed([s EXCEPT !.items[o] = EraseFirst(@, item)],
                         o, item, TRUE, TRUE)

\* remove_child_item.
remove_child_item(s, o, item) ==
    IF s.owner[item] # o THEN Fail(s, 95)
    ELSE LET s1 == [s EXCEPT !.owner[item] = NULL]
         IN IF item \notin Range(s1.items[o]) THEN Fail(s1, 98)
            ELSE extents_changed([s1 EXCEPT !.items[o] = EraseFirst(@, item)],
                                 o, item, TRUE, TRUE)

\* clear_child_items: the loop over trace_tree_child_items(), then clear().
RECURSIVE clear_loop(_, _, _)
clear_loop(s, o, seq) ==
    IF seq = <<>> THEN s
    ELSE LET t == Head(seq)
         IN IF s.owner[t] # o THEN Fail(s, 78)
            ELSE clear_loop([s EXCEPT !.owner[t] = NULL], o, Tail(seq))

\* clear_child_items that drops the list and keeps the back-references.
clear_child_items_keeps_owner(s, o) == [s EXCEPT !.items[o] = <<>>]

clear_child_items(s, o) ==
    LET s1 == clear_loop(s, o, trace_tree_child_items(o, s.items))
    IN IF s1.status # "ok" THEN s1 ELSE [s1 EXCEPT !.items[o] = <<>>]

\* make_shared<TraceGroup>(): an object that does not exist yet.
NewGroup(s) == CHOOSE g \in Groups \ s.alive : TRUE

\* restore_trace_tree.  items is the lookup table: the names it holds, each
\* mapped to the trace of that name.
RECURSIVE restore_trace_tree(_, _, _, _, _)
RECURSIVE restore_loop(_, _, _, _, _, _)

\* trace->restore_trace_tree(settings, items): a trace reads its own keys
\* and leaves the tree alone.
item_restore_trace_tree(s, trace) == s

\* The loop that gives up at the first name the table does not hold.
restore_loop_stops_at_miss(s, o, group, st, items, i) ==
    IF s.status # "ok" \/ i >= value(st, group, "items") THEN s
    ELSE LET sub == Append(group, i)
         IN IF contains(st, sub, "items")
            THEN IF Groups \ s.alive = {}
                    THEN [s EXCEPT !.status = "bound"]
                    ELSE LET new_group == NewGroup(s)
                             s1 == restore_trace_tree(
                                       [s EXCEPT !.alive = @ \cup {new_group}],
                                       new_group, sub, st, items)
                         IN IF s1.status # "ok" THEN s1
                            ELSE IF s1.items[new_group] # <<>>
                            THEN restore_loop(add_child_item(s1, o, new_group),
                                              o, group, st, items, i + 1)
                            ELSE restore_loop(
                                     [s1 EXCEPT !.alive = @ \ {new_group}],
                                     o, group, st, items, i + 1)
            ELSE IF contains(st, sub, "trace")
            THEN LET name == value(st, sub, "trace")
                 IN IF name \in items
                    THEN restore_loop(add_child_item(s, o, name),
                                      o, group, st, items, i + 1)
                    ELSE s
            ELSE restore_loop(s, o, group, st, items, i + 1)

restore_loop(s, o, group, st, items, i) ==
    IF s.status # "ok" \/ i >= value(st, group, "items") THEN s
    ELSE LET sub == Append(group, i)
         IN IF contains(st, sub, "items")
            THEN IF Groups \ s.alive = {}
                    THEN [s EXCEPT !.status = "bound"]
                    ELSE LET new_group == NewGroup(s)
                             s1 == restore_trace_tree(
                                       [s EXCEPT !.alive = @ \cup {new_group}],
                                       new_group, sub, st, items)
                         IN IF s1.status # "ok" THEN s1
                            ELSE IF s1.items[new_group] # <<>>
                            THEN restore_loop(add_child_item(s1, o, new_group),
                                              o, group, st, items, i + 1)
                            ELSE restore_loop(
                                     [s1 EXCEPT !.alive = @ \ {new_group}],
                                     o, group, st, items, i + 1)
            ELSE IF contains(st, sub, "trace")
            THEN LET name == value(st, sub, "trace")
                 IN IF name \in items
                    THEN LET s1 == add_child_item(s, o, name)
                         IN restore_loop(
                                IF s1.status # "ok" THEN s1
                                ELSE item_restore_trace_tree(s1, name),
                                o, group, st, items, i + 1)
                    ELSE restore_loop(s, o, group, st, items, i + 1)
            ELSE restore_loop(s, o, group, st, items, i + 1)

restore_trace_tree(s, o, group, st, items) ==
    IF ~contains(st, group, "items") THEN Fail(s, 143)
    ELSE LET s1 == restore_loop(s, o, group, st, items, 0)
         IN IF s1.status # "ok" THEN s1
            ELSE IF \E c \in Range(s1.items[o]) \cap Groups :
                        Diverges(c, s1.items, {g \in Groups : enabled_[g]})
            THEN [s1 EXCEPT !.status = "overflow"]
            ELSE [s1 EXCEPT !.off = restack_items(o, s1.items, s1.off)]

\* ------------------------------------------------------------------------
\* The state machine.
\* call: the operation, its owner o and item x, the child list o had and
\* the offsets the items had when it was called, and how it ended.
NoCall == [op |-> "none", o |-> NULL, x |-> NULL, had |-> <<>>,
           off |-> [t \in Items |-> 0], status |-> "ok", at |-> 0]

Called(op, o, x, s) ==
    [op |-> op, o |-> o, x |-> x, had |-> items_[o],
     off |-> layout_v_offset_, status |-> s.status, at |-> s.at]

Running == call.status = "ok"

\* A call that changes the tree: counted once the store holds a saved tree.
Edit ==
    /\ saves > 0 => edits < MaxEdits
    /\ edits' = IF saves > 0 THEN edits + 1 ELSE edits

LiveOwners == {Root} \cup alive
\* The traces the calls of Spec are made with.
Traces == {"l1", "l2"}
LiveItems == Traces \cup alive

\* The tree after a call that ended in state s.
Becomes(s) ==
    /\ items_' = s.items
    /\ owner_' = s.owner
    /\ layout_v_offset_' = s.off
    /\ alive' = s.alive
    /\ notified' = s.notified
    /\ emitted' = s.emitted

TypeOK ==
    /\ items_ \in [Owners -> Seq(Items)]
    /\ owner_ \in [Items -> Owners \cup {NULL}]
    /\ alive \subseteq Groups
    /\ enabled_ \in [Items -> BOOLEAN]
    /\ dragging_ \in [Items -> BOOLEAN]
    /\ layout_v_offset_ \in [Items -> Int]
    /\ extents_ \in [Leaves -> Int \X Int]
    /\ saves \in 0..MaxSaves
    /\ edits \in 0..MaxEdits
    /\ notified \in Nat
    /\ Len(emitted) = notified

Init ==
    /\ items_ = [o \in Owners |-> <<>>]
    /\ owner_ = [x \in Items |-> NULL]
    /\ alive = {}
    /\ enabled_ = [x \in Items |-> TRUE]
    /\ dragging_ = [x \in Items |-> FALSE]
    /\ layout_v_offset_ = [x \in Items |-> 0]
    /\ extents_ = LeafExtents
    /\ settings = {}
    /\ saves = 0
    /\ edits = 0
    /\ call = NoCall
    /\ ret = <<>>
    /\ notified = 0
    /\ emitted = <<>>

\* The caller makes a TraceGroup.
CreateGroup ==
    /\ Running
    /\ UNCHANGED edits
    /\ Groups \ alive # {}
    /\ Cardinality(alive) < MaxCreated
    /\ alive' = alive \cup {NewGroup(Tree)}
    /\ call' = NoCall
    /\ ret' = <<>>
    /\ notified' = 0
    /\ emitted' = <<>>
    /\ UNCHANGED <<items_, owner_, layout_v_offset_, settings, saves, geometry>>

AddChildItem(o, item) ==
    /\ Running
    /\ Edit
    /\ LET s == add_child_item(Tree, o, item)
       IN Becomes(s) /\ call' = Called("add_child_item", o, item, s)
    /\ ret' = <<>>
    /\ UNCHANGED <<settings, saves, geometry>>

RemoveChildItem(o, item) ==
    /\ Running
    /\ Edit
    /\ LET s == remove_child_item(Tree, o, item)
       IN Becomes(s) /\ call' = Called("remove_child_item", o, item, s)
    /\ ret' = <<>>
    /\ UNCHANGED <<settings, saves, geometry>>

ClearChildItems(o) ==
    /\ Running
    /\ Edit
    /\ LET s == clear_child_items(Tree, o)
       IN Becomes(s) /\ call' = Called("clear_child_items", o, NULL, s)
    /\ ret' = <<>>
    /\ UNCHANGED <<settings, saves, geometry>>

Overflow == [Tree EXCEPT !.status = "overflow"]

LeafItems(o) ==
    /\ Running
    /\ UNCHANGED edits
    /\ IF Diverges(o, items_, Groups)
          THEN /\ call' = Called("trace_tree_leaf_items", o, NULL, Overflow)
               /\ ret' = <<>>
          ELSE /\ call' = Called("trace_tree_leaf_items", o, NULL, Tree)
               /\ ret' = trace_tree_leaf_items(o, items_)
    /\ notified' = 0
    /\ emitted' = <<>>
    /\ UNCHANGED <<items_, owner_, alive, layout_v_offset_, settings, saves,
                   geometry>>

EnabledGroups == {g \in Groups : enabled_[g]}

VExtents(o) ==
    /\ Running
    /\ UNCHANGED edits
    /\ IF Diverges(o, items_, EnabledGroups)
          THEN /\ call' = Called("v_extents", o, NULL, Overflow)
               /\ ret' = <<>>
          ELSE /\ call' = Called("v_extents", o, NULL, Tree)
               /\ ret' = v_extents(o, items_, layout_v_offset_)
    /\ notified' = 0
    /\ emitted' = <<>>
    /\ UNCHANGED <<items_, owner_, alive, layout_v_offset_, settings, saves,
                   geometry>>

RestackItems(o) ==
    /\ Running
    /\ UNCHANGED edits
    /\ IF \E c \in Range(items_[o]) \cap Groups :
              Diverges(c, items_, EnabledGroups)
          THEN /\ call' = Called("restack_items", o, NULL, Overflow)
               /\ layout_v_offset_' = layout_v_offset_
          ELSE /\ call' = Called("restack_items", o, NULL, Tree)
               /\ layout_v_offset_' =
                      restack_items(o, items_, layout_v_offset_)
    /\ ret' = <<>>
    /\ notified' = 0
    /\ emitted' = <<>>
    /\ UNCHANGED <<items_, owner_, alive, settings, saves, geometry>>

SaveTraceTree(o) ==
    /\ Running
    /\ UNCHANGED edits
    /\ saves < MaxSaves
    /\ saves' = saves + 1
    /\ IF Diverges(o, items_, Groups)
          THEN /\ call' = Called("save_trace_tree", o, NULL, Overflow)
               /\ settings' = settings
          ELSE /\ call' = Called("save_trace_tree", o, NULL, Tree)
               /\ settings' = save_trace_tree(o, <<>>, settings, items_)
    /\ ret' = <<>>
    /\ notified' = 0
    /\ emitted' = <<>>
    /\ UNCHANGED <<items_, owner_, alive, layout_v_offset_, geometry>>

RestoreTraceTree(o, items) ==
    /\ Running
    /\ Edit
    /\ LET s == restore_trace_tree(Tree, o, <<>>, settings, items)
       IN /\ s.status # "bound"
          /\ Becomes(s)
          /\ call' = Called("restore_trace_tree", o, NULL, s)
    /\ ret' = items
    /\ UNCHANGED <<settings, saves, geometry>>

Next ==
    \/ CreateGroup
    \/ \E o \in LiveOwners, item \in LiveItems : AddChildItem(o, item)
    \/ \E o \in LiveOwners, item \in LiveItems : RemoveChildItem(o, item)
    \/ \E o \in LiveOwners : ClearChildItems(o)
    \/ \E o \in LiveOwners : LeafItems(o)
    \/ SaveTraceTree(Root)
    \/ \E items \in SUBSET Traces : RestoreTraceTree(Root, items)

Spec == Init /\ [][Next]_vars

\* ------------------------------------------------------------------------
\* The layout calls, from the trees, extents, flags and offsets the callers
\* of add_child_item, set_enabled, drag and set_layout_v_offset can leave.
LayoutTrees == {
    [o \in Owners |-> IF o = Root THEN <<"l1", "l2", "l3">> ELSE <<>>],
    [o \in Owners |-> CASE o = Root -> <<"l3", "g1", "l1">>
                         [] o = "g1" -> <<"l2">>
                         [] OTHER -> <<>>],
    [o \in Owners |-> CASE o = Root -> <<"l2", "g1", "l1">>
                         [] OTHER -> <<>>] }

ExtChoices == [l \in Leaves |->
    CASE l = "l1" -> {<<0, 0>>, <<-1, 0>>, <<-2, 2>>}
      [] l = "l2" -> {<<0, 0>>, <<0, 1>>, <<-2, 1>>}
      [] OTHER -> {<<-2, 2>>, <<0, 4>>}]
OffsetChoices == {0, 4}
MaxDragged == 1

InTree(its) == UNION {Range(its[o]) : o \in Owners}

InitLayout ==
    /\ items_ \in LayoutTrees
    /\ owner_ = [x \in Items |->
                    IF \E o \in Owners : x \in Range(items_[o])
                       THEN CHOOSE o \in Owners : x \in Range(items_[o])
                       ELSE NULL]
    /\ alive = InTree(items_) \cap Groups
    /\ enabled_ \in [Items -> BOOLEAN]
    /\ dragging_ \in [Items -> BOOLEAN]
    /\ Cardinality({x \in Items : dragging_[x]}) <= MaxDragged
    /\ layout_v_offset_ \in [Items -> OffsetChoices]
    /\ extents_ \in [Leaves -> UNION {ExtChoices[l] : l \in Leaves}]
    /\ \A l \in Leaves : extents_[l] \in ExtChoices[l]
    /\ \A x \in Items \ InTree(items_) :
           /\ enabled_[x] /\ ~dragging_[x] /\ layout_v_offset_[x] = 0
           /\ x \in Leaves => extents_[x] = LeafExtents[x]
    /\ settings = {}
    /\ saves = 0
    /\ edits = 0
    /\ call = NoCall
    /\ ret = <<>>
    /\ notified = 0
    /\ emitted = <<>>

NextLayout ==
    \/ \E o \in LiveOwners : VExtents(o)
    \/ \E o \in LiveOwners : RestackItems(o)

SpecLayout == InitLayout /\ [][NextLayout]_vars

\* ------------------------------------------------------------------------
\* A restore from a store the program did not write itself: the settings
\* file of an earlier session or of another version, or one edited by hand.
\* The store holds any choice of keys in the root section, two numbered
\* sections and the two numbered sections of each of those.
TopSections == {<<0>>, <<1>>}
SubSections == {<<0, 0>>, <<0, 1>>, <<1, 0>>, <<1, 1>>}
Counts == {0, 1, 2}

\* The store with the "items" keys of count and the "trace" keys of trace.
StoreOf(count, trace) ==
    {[group |-> g, key |-> "items", value |-> count[g]] : g \in DOMAIN count}
    \cup {[group |-> g, key |-> "trace", value |-> trace[g]] :
              g \in DOMAIN trace}

InitStore ==
    /\ items_ = [o \in Owners |-> <<>>]
    /\ owner_ = [x \in Items |-> NULL]
    /\ alive = {}
    /\ enabled_ = [x \in Items |-> TRUE]
    /\ dragging_ = [x \in Items |-> FALSE]
    /\ layout_v_offset_ = [x \in Items |-> 0]
    /\ extents_ = LeafExtents
    /\ \E C \in SUBSET ({<<>>} \cup TopSections),
          T \in SUBSET (TopSections \cup SubSections) :
           \E count \in [C -> Counts], trace \in [T -> Traces] :
               settings = StoreOf(count, trace)
    /\ saves = 0
    /\ edits = 0
    /\ call = NoCall
    /\ ret = <<>>
    /\ notified = 0
    /\ emitted = <<>>

NextStore ==
    \E items \in SUBSET Traces : RestoreTraceTree(Root, items)

SpecStore == InitStore /\ [][NextStore]_vars

\* ------------------------------------------------------------------------
\* C1: ownership invariant.  In every state the calls reach, an item is in
\* the list of owner o exactly once when its back-reference is o and not at
\* all otherwise (so it is never in two lists); right after a successful
\* add_child_item(x) on o, x is in o's list once with owner o, and right
\* after a successful remove_child_item(x) it is in no list with owner null.
C1_Ownership ==
    /\ \A o \in Owners, x \in Items :
           Count(x, items_[o]) = IF owner_[x] = o THEN 1 ELSE 0
    /\ (call.op = "add_child_item" /\ call.status = "ok") =>
           /\ Count(call.x, items_[call.o]) = 1
           /\ owner_[call.x] = call.o
    /\ (call.op = "remove_child_item" /\ call.status = "ok") =>
           /\ \A o \in Owners : Count(call.x, items_[o]) = 0
           /\ owner_[call.x] = NULL

\* An item was removed from a group while the root and the group hold others.
C1_Witness ==
    /\ call.op = "remove_child_item" /\ call.status = "ok"
    /\ call.o \in Groups
    /\ items_[call.o] # <<>>
    /\ items_[Root] # <<>>

\* ------------------------------------------------------------------------
\* The descendants of an owner, read off the back-references.
RECURSIVE UnderN(_, _, _)
UnderN(o, x, n) ==
    IF n = 0 \/ owner_[x] = NULL THEN FALSE
    ELSE IF owner_[x] = o THEN TRUE
    ELSE IF owner_[x] = Root THEN FALSE
    ELSE UnderN(o, owner_[x], n - 1)

Under(o, x) == UnderN(o, x, Cardinality(Groups) + 1)

Pos(x, seq) == CHOOSE i \in 1..Len(seq) : seq[i] = x

\* The list positions on the way from owner o down to its descendant x.
RECURSIVE PathFrom(_, _)
PathFrom(o, x) ==
    IF owner_[x] = o THEN <<Pos(x, items_[o])>>
    ELSE PathFrom(o, owner_[x]) \o <<Pos(x, items_[owner_[x]])>>

LexLess(p, q) ==
    \E k \in 1..Min(Len(p), Len(q)) :
        p[k] < q[k] /\ \A j \in 1..(k - 1) : p[j] = q[j]

\* C5: trace_tree_leaf_items returns the traces below the owner, each once
\* and no group, in depth-first order along the lists; with only traces as
\* direct children it returns the child list.
C5_LeafItems ==
    (call.op = "trace_tree_leaf_items" /\ call.status = "ok") =>
        /\ \A i \in 1..Len(ret) : ret[i] \in Leaves
        /\ \A x \in Leaves :
               Count(x, ret) = IF Under(call.o, x) THEN 1 ELSE 0
        /\ \A i, j \in 1..Len(ret) :
               i < j => LexLess(PathFrom(call.o, ret[i]),
                                PathFrom(call.o, ret[j]))
        /\ Range(items_[call.o]) \subseteq Leaves => ret = items_[call.o]

\* Leaves were collected from an owner that holds a trace after a group
\* with a trace in it.
C5_Witness ==
    /\ call.op = "trace_tree_leaf_items" /\ call.status = "ok"
    /\ Len(ret) = 2
    /\ \E i, j \in 1..Len(items_[call.o]) :
           /\ i < j
           /\ items_[call.o][i] \in Groups
           /\ items_[items_[call.o][i]] # <<>>
           /\ items_[call.o][j] \in Leaves

Untouched ==
    /\ items_' = items_
    /\ owner_' = owner_
    /\ layout_v_offset_' = layout_v_offset_
    /\ alive' = alive
    /\ notified' = 0

C9_ContractViolations ==
    [][/\ (call'.op = "add_child_item" /\ owner_[call'.x] # NULL) =>
              call'.status = "assert" /\ call'.at = 86 /\ Untouched
       /\ (call'.op = "remove_child_item" /\ owner_[call'.x] # call'.o) =>
              call'.status = "assert" /\ call'.at = 95 /\ Untouched
       /\ (call'.op = "restore_trace_tree"
              /\ ~contains(settings, <<>>, "items")) =>
              call'.status = "assert" /\ call'.at = 143 /\ Untouched
      ]_vars

\* add_child_item was called with an item that another owner holds.
C9_Witness ==
    /\ call.op = "add_child_item"
    /\ call.status = "assert" /\ call.at = 86
    /\ owner_[call.x] \notin {NULL, call.o}
    /\ items_[call.o] # <<>>

\* ------------------------------------------------------------------------
\* Two trees of the same shape: the same traces at the same places, a group
\* where the other has a group.
RECURSIVE Isomorphic(_, _, _, _)
Isomorphic(its1, o1, its2, o2) ==
    /\ Len(its1[o1]) = Len(its2[o2])
    /\ \A i \in 1..Len(its1[o1]) :
           LET a == its1[o1][i]
               b == its2[o2][i]
           IN IF a \in Leaves THEN b = a
              ELSE b \in Groups /\ Isomorphic(its1, a, its2, b)

\* In a state right after clear_child_items on the root: the tree as it was
\* before that call, and whether the store holds the save of that tree and
\* nothing else.
BeforeClear == [items_ EXCEPT ![Root] = call.had]

SavedThenCleared ==
    /\ call.op = "clear_child_items" /\ call.o = Root /\ call.status = "ok"
    /\ settings = save_trace_tree(Root, <<>>, {}, BeforeClear)

RECURSIVE StoreNames(_, _)
RECURSIVE StoreNamesFrom(_, _, _)
StoreNamesFrom(st, group, i) ==
    IF i >= value(st, group, "items") THEN <<>>
    ELSE LET sub == Append(group, i)
         IN (IF contains(st, sub, "items") THEN StoreNames(st, sub)
             ELSE IF contains(st, sub, "trace")
                  THEN <<value(st, sub, "trace")>>
             ELSE <<>>) \o StoreNamesFrom(st, group, i + 1)

StoreNames(st, group) == StoreNamesFrom(st, group, 0)

Available(names, items) == SelectSeq(names, LAMBDA n : n \in items)

\* Some item below owner o (o's own list from position from on) is a trace
\* outside the table or a group without children.
RECURSIVE BadBelow(_, _, _, _)
BadBelow(its, o, from, items) ==
    \E i \in from..Len(its[o]) :
        LET x == its[o][i]
        IN IF x \in Leaves THEN x \notin items
           ELSE its[x] = <<>> \/ BadBelow(its, x, 1, items)

\* The traces below the items restore attached to the root.
RECURSIVE RestoredLeaves(_, _, _)
RestoredLeaves(its, seq, from) ==
    IF from > Len(seq) THEN <<>>
    ELSE (IF seq[from] \in Groups
             THEN trace_tree_leaf_items(seq[from], its)
             ELSE <<seq[from]>>) \o RestoredLeaves(its, seq, from + 1)

\* C8: restore_trace_tree tolerates what is not available.  When the store
\* has an "items" key and the traces it names that are in the table are
\* named once and have no owner, the call ends without a failed assertion
\* whatever names are missing from the table; the traces it attached are
\* the named ones that are in the table, in the order of the store (a
\* missing name stops nothing after it); every attached leaf is in the
\* table and no attached group is empty.
C8_RestoreTolerates ==
    [][(/\ call'.op = "restore_trace_tree"
        /\ contains(settings, <<>>, "items")
        /\ LET names == Available(StoreNames(settings, <<>>), ret')
           IN \A n \in Range(names) :
                  Count(n, names) = 1 /\ owner_[n] = NULL) =>
            /\ call'.status = "ok"
            /\ RestoredLeaves(items_', items_'[call'.o],
                              Len(items_[call'.o]) + 1)
                   = Available(StoreNames(settings, <<>>), ret')
            /\ ~BadBelow(items_', call'.o, Len(items_[call'.o]) + 1, ret')
      ]_vars

\* A restore skipped a name inside a group section, dropped the group that
\* stayed empty, and attached the trace of the section after it.
C8_Witness ==
    /\ call.op = "restore_trace_tree" /\ call.status = "ok"
    /\ contains(settings, <<0>>, "items")
    /\ value(settings, <<0>>, "items") = 1
    /\ contains(settings, <<0, 0>>, "trace")
    /\ value(settings, <<0, 0>>, "trace") \notin ret
    /\ contains(settings, <<1>>, "trace")
    /\ ~contains(settings, <<1>>, "items")
    /\ value(settings, <<1>>, "trace") \in ret
    /\ call.had = <<>>
    /\ items_[Root] = <<value(settings, <<1>>, "trace")>>

\* ------------------------------------------------------------------------
\* The extents of an owner as the least and the greatest edge of its
\* enabled children.
SetMin(S) == CHOOSE m \in S : \A y \in S : m <= y
SetMax(S) == CHOOSE m \in S : \A y \in S : m >= y

RECURSIVE ExpectedExtents(_)
ExpectedExtents(o) ==
    LET E == {t \in Range(items_[o]) : enabled_[t]}
        Own(t) == IF t \in Groups THEN ExpectedExtents(t) ELSE extents_[t]
    IN IF E = {} THEN <<0, 0>>
       ELSE <<SetMin({Own(t)[1] + layout_v_offset_[t] : t \in E}),
              SetMax({Own(t)[2] + layout_v_offset_[t] : t \in E})>>

\* C4: v_extents of an owner is (0, 0) when no direct child is enabled and
\* otherwise the least min + offset and the greatest max + offset over its
\* enabled direct children, a group child counting with its own v_extents.
C4_VExtents ==
    (call.op = "v_extents" /\ call.status = "ok") =>
        ret = ExpectedExtents(call.o)

\* The extents were taken of an owner with a disabled child of non-zero
\* extent, an enabled trace and an enabled group that holds an enabled
\* trace, and they are not those of one child alone.
C4_Witness ==
    /\ call.op = "v_extents" /\ call.status = "ok"
    /\ \E d, t, g \in Range(items_[call.o]) :
           /\ d \in Leaves /\ ~enabled_[d] /\ extents_[d] # <<0, 0>>
           /\ t \in Leaves /\ enabled_[t]
           /\ g \in Groups /\ enabled_[g]
           /\ \E y \in Range(items_[g]) : enabled_[y]
           /\ ret[1] = extents_[t][1] + layout_v_offset_[t]
           /\ ret[2] # extents_[t][2] + layout_v_offset_[t]

\* ------------------------------------------------------------------------
\* Restacking.  In the formulas below the unprimed state is the one the
\* call starts in and the primed one the state it leaves.
Restacked == call'.op = "restack_items" /\ call'.status = "ok"

OwnExtents(t) == item_v_extents(t, items_, layout_v_offset_)

ZeroExtent(t) == OwnExtents(t) = <<0, 0>>

Without(seq, x) == SelectSeq(seq, LAMBDA y : y # x)

\* C2 as stated: a second restack_items right after a first one on the same
\* owner leaves every offset as the first one left it, whatever the
\* children are.
C2_Idempotent ==
    [][(/\ call.op = "restack_items" /\ call.status = "ok"
        /\ Restacked /\ call'.o = call.o) =>
            layout_v_offset_' = layout_v_offset_
      ]_vars

\* The children for which the second call repeats the first: every child
\* of non-zero extent is enabled, is not dragged and is at least 2 high.
Settled(o) ==
    \A t \in Range(items_[o]) :
        ZeroExtent(t) \/ (/\ enabled_[t]
                          /\ ~dragging_[t]
                          /\ OwnExtents(t)[2] - OwnExtents(t)[1] >= 2)

\* C2 as the code has it: restack_items is idempotent on an owner whose
\* children of non-zero extent are all enabled, not dragged and have
\* max - min >= 2 (zero-extent children may be in any state).
C2_IdempotentSettled ==
    [][(/\ call.op = "restack_items" /\ call.status = "ok"
        /\ Restacked /\ call'.o = call.o
        /\ Settled(call.o)) =>
            layout_v_offset_' = layout_v_offset_
      ]_vars

\* An owner with three such children of two different extents, whose list
\* order is not the stacked order, was restacked and a further call would
\* change nothing.
C2_Witness ==
    /\ call.op = "restack_items" /\ call.status = "ok"
    /\ Settled(call.o)
    /\ Cardinality({t \in Range(items_[call.o]) : ~ZeroExtent(t)}) = 3
    /\ Cardinality({OwnExtents(t) : t \in Range(items_[call.o])}) >= 2
    /\ stable_sort(items_[call.o], items_, layout_v_offset_) # items_[call.o]
    /\ restack_items(call.o, items_, layout_v_offset_) = layout_v_offset_

\* C6: restack_items leaves the offset of a child with (0, 0) extents as it
\* is, enabled or not, and gives every other child the offset it would get
\* were that child not in the list.
C6_ZeroExtentSkipped ==
    [][Restacked =>
        \A z \in Range(items_[call'.o]) :
            ZeroExtent(z) =>
                /\ layout_v_offset_'[z] = layout_v_offset_[z]
                /\ \A y \in Range(items_[call'.o]) \ {z} :
                       layout_v_offset_'[y] =
                           restack_list(Without(items_[call'.o], z),
                                        items_, layout_v_offset_)[y]
      ]_vars

\* An owner was restacked whose zero-extent child sits, at an offset no
\* stacking would give it, between two enabled children that were stacked.
C6_Witness ==
    /\ call.op = "restack_items" /\ call.status = "ok"
    /\ \E a, z, b \in Range(items_[call.o]) :
           /\ ZeroExtent(z) /\ ~dragging_[z]
           /\ ~ZeroExtent(a) /\ enabled_[a] /\ ~dragging_[a]
           /\ ~ZeroExtent(b) /\ enabled_[b] /\ ~dragging_[b]
           /\ layout_v_offset_[a] + OwnExtents(a)[2]
                  = layout_v_offset_[b] + OwnExtents(b)[1]
           /\ layout_v_offset_[z] = 4
           /\ layout_v_offset_[a] < 4
           /\ layout_v_offset_[b] > 4

\* The heights of the enabled non-zero-extent items before d in sorted.
RECURSIVE TotalBefore(_, _)
TotalBefore(sorted, d) ==
    IF sorted = <<>> \/ Head(sorted) = d THEN 0
    ELSE LET h == Head(sorted)
         IN (IF enabled_[h] /\ ~ZeroExtent(h)
                THEN OwnExtents(h)[2] - OwnExtents(h)[1] ELSE 0)
            + TotalBefore(Tail(sorted), d)

\* C7: restack_items gives a disabled child that is not dragged and has
\* non-zero extent the running total at its place in the sorted order, the
\* sum of max - min over the enabled non-zero-extent children sorted before
\* it, and every other child the offset it would get were the disabled
\* child not in the list.
C7_DisabledPlaced ==
    [][Restacked =>
        \A d \in Range(items_[call'.o]) :
            (~enabled_[d] /\ ~dragging_[d] /\ ~ZeroExtent(d)) =>
                /\ layout_v_offset_'[d] =
                       TotalBefore(stable_sort(items_[call'.o], items_,
                                               layout_v_offset_), d)
                /\ \A y \in Range(items_[call'.o]) \ {d} :
                       layout_v_offset_'[y] =
                           restack_list(Without(items_[call'.o], d),
                                        items_, layout_v_offset_)[y]
      ]_vars

\* An owner was restacked whose disabled child lies where the enabled child
\* before it ends and the enabled child after it begins.
C7_Witness ==
    /\ call.op = "restack_items" /\ call.status = "ok"
    /\ \E a, d, b \in Range(items_[call.o]) :
           /\ ~enabled_[d] /\ ~dragging_[d] /\ ~ZeroExtent(d)
           /\ ~ZeroExtent(a) /\ enabled_[a] /\ ~dragging_[a]
           /\ ~ZeroExtent(b) /\ enabled_[b] /\ ~dragging_[b]
           /\ a # b
           /\ layout_v_offset_[a] + OwnExtents(a)[1] = 0
           /\ layout_v_offset_[d] = layout_v_offset_[a] + OwnExtents(a)[2]
           /\ layout_v_offset_[d] > 0
           /\ layout_v_offset_[b] + OwnExtents(b)[1] = layout_v_offset_[d]

\* ------------------------------------------------------------------------
\* C11: every successful add_child_item and every successful
\* remove_child_item emits extents_changed(true, true) exactly once, on the
\* owner it was called on, and emits it after the change is complete: the
\* receiver finds the item in the list with the owner as its back-reference
\* (add), or out of the list with a null back-reference (remove), which is
\* also the state the call leaves.
C11_NotifiesAfterMutation ==
    [][/\ (call'.op = "add_child_item" /\ call'.status = "ok") =>
              /\ notified' = 1
              /\ emitted' = <<[on |-> call'.o, item |-> call'.x,
                               horz |-> TRUE, vert |-> TRUE,
                               owner |-> call'.o, listed |-> 1]>>
              /\ owner_'[call'.x] = call'.o
              /\ Count(call'.x, items_'[call'.o]) = 1
       /\ (call'.op = "remove_child_item" /\ call'.status = "ok") =>
              /\ notified' = 1
              /\ emitted' = <<[on |-> call'.o, item |-> call'.x,
                               horz |-> TRUE, vert |-> TRUE,
                               owner |-> NULL, listed |-> 0]>>
              /\ owner_'[call'.x] = NULL
              /\ Count(call'.x, items_'[call'.o]) = 0
      ]_vars

\* A trace was added to a group that already held an item, and the one
\* notification found it attached.
C11_Witness ==
    /\ call.op = "add_child_item" /\ call.status = "ok"
    /\ call.o \in Groups /\ call.x \in Leaves
    /\ call.had # <<>>
    /\ Len(emitted) = 1
    /\ emitted[1].owner = call.o /\ emitted[1].listed = 1

\* ------------------------------------------------------------------------
\* The order restack_items stacks the children of o in: a before b when the
\* centre line of a, on the offsets the call starts with, is above that of
\* b, or level with it and a is earlier in the list.
CentreLine(t) ==
    layout_v_offset_[t] + CDiv2(OwnExtents(t)[1] + OwnExtents(t)[2])

StackedBefore(o, a, b) ==
    LET ka == CentreLine(a)
        kb == CentreLine(b)
    IN ka < kb \/ (ka = kb /\ Pos(a, items_[o]) < Pos(b, items_[o]))

\* The children of o that take room: enabled, with extents other than (0, 0).
Stacked(o) == {t \in Range(items_[o]) : enabled_[t] /\ ~ZeroExtent(t)}

\* C12: after restack_items on an owner none of whose children is dragged,
\* the enabled children with extents other than (0, 0) and min <= max lie
\* one under the other without gap or overlap: the first in stacking order
\* has its top edge, offset + min, at 0, and every other has its top edge
\* where the bottom edge, offset + max, of the one stacked before it is.
C12_NoOverlap ==
    [][(/\ Restacked
        /\ \A t \in Range(items_[call'.o]) :
               /\ ~dragging_[t]
               /\ OwnExtents(t)[1] <= OwnExtents(t)[2]) =>
            LET o == call'.o
                top(t) == layout_v_offset_'[t] + OwnExtents(t)[1]
                bottom(t) == layout_v_offset_'[t] + OwnExtents(t)[2]
            IN \A t \in Stacked(o) :
                   LET before == {a \in Stacked(o) : StackedBefore(o, a, t)}
                   IN IF before = {} THEN top(t) = 0
                      ELSE \E a \in before :
                               /\ \A c \in before \ {a} :
                                      StackedBefore(o, c, a)
                               /\ top(t) = bottom(a)
                               /\ bottom(a) <= bottom(t)
      ]_vars

\* Three enabled children of non-zero extent, none dragged, whose stacking
\* order is not their list order, lie one under the other from 0.
C12_Witness ==
    /\ call.op = "restack_items" /\ call.status = "ok"
    /\ \A t \in Range(items_[call.o]) : ~dragging_[t]
    /\ \E a, b, c \in Stacked(call.o) :
           /\ Pos(b, items_[call.o]) < Pos(a, items_[call.o])
           /\ OwnExtents(a)[1] < 0
           /\ layout_v_offset_[a] + OwnExtents(a)[1] = 0
           /\ layout_v_offset_[b] + OwnExtents(b)[1]
                  = layout_v_offset_[a] + OwnExtents(a)[2]
           /\ layout_v_offset_[c] + OwnExtents(c)[1]
                  = layout_v_offset_[b] + OwnExtents(b)[2]
           /\ OwnExtents(b)[1] < OwnExtents(b)[2]
           /\ OwnExtents(c)[1] < OwnExtents(c)[2]

\* ------------------------------------------------------------------------
\* The room the children in S take: the sum of max - min.
RECURSIVE Heights(_)
Heights(S) ==
    IF S = {} THEN 0
    ELSE LET t == CHOOSE x \in S : TRUE
         IN (OwnExtents(t)[2] - OwnExtents(t)[1]) + Heights(S \ {t})

\* The room taken above child t of o: that of the enabled children with
\* extents other than (0, 0) stacked before it, dragged or not.
RoomBefore(o, t) == Heights({a \in Stacked(o) : StackedBefore(o, a, t)})

\* C13: restack_items leaves the offset of every dragged child as it is,
\* and places every other child of extents other than (0, 0) below the room
\* of all enabled children stacked before it, the dragged ones included: an
\* enabled dragged child takes max - min at its place in the stacking order
\* as if it had been put there.
C13_DraggedFrozen ==
    [][Restacked =>
        \A t \in Range(items_[call'.o]) :
            /\ dragging_[t] => layout_v_offset_'[t] = layout_v_offset_[t]
            /\ (~dragging_[t] /\ ~ZeroExtent(t)) =>
                   layout_v_offset_'[t] =
                       RoomBefore(call'.o, t)
                           - (IF enabled_[t] THEN OwnExtents(t)[1] ELSE 0)
      ]_vars

\* An enabled dragged child of non-zero extent kept an offset that stacking
\* would not give it, and the child stacked after it lies below its room.
C13_Witness ==
    /\ call.op = "restack_items" /\ call.status = "ok"
    /\ \E a, d, b \in Range(items_[call.o]) :
           /\ dragging_[d] /\ enabled_[d] /\ ~ZeroExtent(d)
           /\ enabled_[a] /\ ~dragging_[a] /\ ~ZeroExtent(a)
           /\ enabled_[b] /\ ~dragging_[b] /\ ~ZeroExtent(b)
           /\ a # b
           /\ layout_v_offset_[a] + OwnExtents(a)[1] = 0
           /\ layout_v_offset_[d] + OwnExtents(d)[1]
                  # layout_v_offset_[a] + OwnExtents(a)[2]
           /\ layout_v_offset_[b] + OwnExtents(b)[1]
                  = layout_v_offset_[a] + OwnExtents(a)[2]
                      + (OwnExtents(d)[2] - OwnExtents(d)[1])
           /\ OwnExtents(d)[2] - OwnExtents(d)[1] > 0

\* ------------------------------------------------------------------------
\* The running total restack_items had reached when it came to child t, read
\* off the offset it gave t.
TotalAt(t) ==
    layout_v_offset_'[t] + (IF enabled_[t] THEN OwnExtents(t)[1] ELSE 0)

\* C14: restack_items stacks the children in ascending order of the key
\* offset + (min + max) / 2, taken on the offsets the call starts with and
\* with the division truncating, and children of equal key in the order of
\* the list: the sorted vector holds the children in that order, a child
\* that is placed is never above one stacked before it and is below every
\* enabled one of positive height stacked before it, and the list itself
\* and the back-references stay as they were.
C14_StackingOrder ==
    [][Restacked =>
        LET o == call'.o
            Placed == {t \in Range(items_[o]) :
                           ~dragging_[t] /\ ~ZeroExtent(t)}
        IN /\ \E sorted \in {stable_sort(items_[o], items_,
                                          layout_v_offset_)} :
                  /\ Len(sorted) = Len(items_[o])
                  /\ \A t \in Items :
                         Count(t, sorted) = Count(t, items_[o])
                  /\ \A i, j \in 1..Len(sorted) :
                         i < j => StackedBefore(o, sorted[i], sorted[j])
           /\ (\A t \in Range(items_[o]) :
                   OwnExtents(t)[1] <= OwnExtents(t)[2]) =>
                  \A a, b \in Placed :
                      StackedBefore(o, a, b) =>
                          /\ TotalAt(a) <= TotalAt(b)
                          /\ (enabled_[a]
                                /\ OwnExtents(a)[1] < OwnExtents(a)[2]) =>
                                 TotalAt(a) < TotalAt(b)
           /\ items_' = items_
           /\ owner_' = owner_
      ]_vars

\* Two enabled children of equal key were stacked in list order, both below
\* a child that is last in the list and has the least key.
C14_Witness ==
    /\ call.op = "restack_items" /\ call.status = "ok"
    /\ \E a, b, c \in Range(items_[call.o]) :
           /\ \A t \in {a, b, c} :
                  /\ enabled_[t] /\ ~dragging_[t]
                  /\ OwnExtents(t)[1] < OwnExtents(t)[2]
           /\ Pos(a, items_[call.o]) < Pos(b, items_[call.o])
           /\ Pos(b, items_[call.o]) < Pos(c, items_[call.o])
           /\ SortKey(a, items_, call.off) = SortKey(b, items_, call.off)
           /\ SortKey(c, items_, call.off) < SortKey(a, items_, call.off)
           /\ layout_v_offset_[c] + OwnExtents(c)[1] = 0
           /\ layout_v_offset_[a] + OwnExtents(a)[1]
                  = layout_v_offset_[c] + OwnExtents(c)[2]
           /\ layout_v_offset_[b] + OwnExtents(b)[1]
                  = layout_v_offset_[a] + OwnExtents(a)[2]
           /\ OwnExtents(a)[1] + OwnExtents(a)[2] < 0

\* ------------------------------------------------------------------------
\* The keys a save of owner o into section group sets: "items" with the
\* number of children in the section itself and, in the numbered section of
\* each child, the name of a trace or the keys of a group.
RECURSIVE SavedKeys(_, _)
SavedKeys(o, group) ==
    {[group |-> group, key |-> "items", value |-> Len(items_[o])]}
    \cup UNION {LET child == items_[o][i]
                    sub == Append(group, i - 1)
                IN IF child \in Groups THEN SavedKeys(child, sub)
                   ELSE {[group |-> sub, key |-> "trace", value |-> child]}
                : i \in 1..Len(items_[o])}

\* The store st after the keys in written were set.
Overwrite(st, written) ==
    {e \in st : \A w \in written : ~(w.group = e.group /\ w.key = e.key)}
        \cup written

\* C15: save_trace_tree on an owner with n children sets "items" to n in the
\* owner's section, also for n = 0, and writes the numbered sections 0 to
\* n - 1 and no other, section i with what the i-th child of the list saves
\* (the name of a trace, the sections of a group); every key it does not set
\* stays as it was, and so do the lists, the back-references and the offsets.
C15_SaveWrites ==
    [][(call'.op = "save_trace_tree" /\ call'.status = "ok") =>
        LET o == call'.o
            n == Len(items_[o])
        IN /\ settings' = Overwrite(settings, SavedKeys(o, <<>>))
           /\ contains(settings', <<>>, "items")
           /\ value(settings', <<>>, "items") = n
           /\ \A i \in 0..(n - 1) :
                  LET child == items_[o][i + 1]
                  IN IF child \in Groups
                        THEN /\ contains(settings', <<i>>, "items")
                             /\ value(settings', <<i>>, "items")
                                    = Len(items_[child])
                        ELSE /\ contains(settings', <<i>>, "trace")
                             /\ value(settings', <<i>>, "trace") = child
           /\ \A e \in settings' \ settings :
                  \/ e.group = <<>> /\ e.key = "items"
                  \/ e.group # <<>> /\ Head(e.group) \in 0..(n - 1)
           /\ items_' = items_
           /\ owner_' = owner_
           /\ layout_v_offset_' = layout_v_offset_
      ]_vars

\* The root was saved with a trace, then a group that holds a trace: three
\* "items" and "trace" keys under two numbered sections and the count 2.
C15_Witness ==
    /\ call.op = "save_trace_tree" /\ call.status = "ok"
    /\ Len(items_[Root]) = 2
    /\ items_[Root][1] \in Leaves
    /\ items_[Root][2] \in Groups
    /\ Len(items_[items_[Root][2]]) = 1
    /\ settings = {[group |-> <<>>, key |-> "items", value |-> 2],
                   [group |-> <<0>>, key |-> "trace",
                    value |-> items_[Root][1]],
                   [group |-> <<1>>, key |-> "items", value |-> 1],
                   [group |-> <<1, 0>>, key |-> "trace",
                    value |-> items_[items_[Root][2]][1]]}

\* ------------------------------------------------------------------------
\* C16: restore_trace_tree keeps to the precondition of add_child_item.
\* When no item of the lookup table has an owner as restore starts, no
\* add_child_item it makes fails the assertion of line 86, whatever the
\* store holds, also when a trace name is in two of its sections.
C16_RestoreAddsUnowned ==
    [][(/\ call'.op = "restore_trace_tree"
        /\ \A t \in ret' : owner_[t] = NULL) =>
            ~(call'.status = "assert" /\ call'.at = 86)
      ]_vars

\* ------------------------------------------------------------------------
\* C17: the ownership structure stays a tree.  As long as no call has
\* failed an assertion, no group is its own owner or below itself, and so
\* the recursion of trace_tree_leaf_items and of v_extents from any owner
\* comes to an end.
C17_OwnershipIsTree ==
    call.status = "ok" =>
        /\ \A g \in Groups : ~Under(g, g)
        /\ \A o \in Owners : ~Diverges(o, items_, Groups)

====
